---- MODULE Spec2Model ----
(***************************************************************************)
(* Session registry and workspace provisioning of winlock                  *)
(* (src/winlock/src/lib.rs): Agent::new, Sessions::{list_all, list, get,   *)
(* store, remove} run by independent processes that share the registry     *)
(* file ~/.annawinlock/sessions.json and the workspace directories.        *)
(*                                                                         *)
(* Every process executes one library call at a time.  A call is split     *)
(* into steps at the points where it touches the shared file system, so    *)
(* that calls of different processes interleave as separate CLI            *)
(* invocations do.                                                         *)
(***************************************************************************)
EXTENDS Integers, FiniteSets, Sequences, TLC

(* ---------------------------- bounds ----------------------------------- *)
MaxCalls == 2        \* library calls issued in one behaviour of Spec
SeqMaxCalls == 4     \* library calls issued in one behaviour of SeqSpec
MaxTemp == 2         \* temporary directories TempDir::new can hand out
MaxUser == 2         \* caller-supplied workspace paths (Sessions::store)
MaxEntries == 3      \* entries of the project tree that copy_workspace walks
MaxRecords == 3      \* records of the registry that QuerySpec loads
CliMaxCalls == 2     \* commands issued in one behaviour of CliSpec
QuietMaxCalls == 3   \* commands issued in one behaviour of QuietSpec

(* Two invocations of the tool running at the same time. *)
Procs == {1, 2}
Projects == {"/work/app"}
ValidBranches == {"feature-x", "feature-y"}
InvalidBranches == {"bad..name"}
Branches == ValidBranches \cup InvalidBranches

TempDirs == {<<"tmp", i>> : i \in 1..MaxTemp}
UserDirs == {<<"usr", i>> : i \in 1..MaxUser}
Workspaces == TempDirs \cup UserDirs
NoPath == <<"none", 0>>

(* struct Session { project, workspace, branch }: equality and hash are    *)
(* derived over all three fields.                                          *)
Session == [project : Projects, workspace : Workspaces, branch : Branches]

(* BranchName::from_str accepts exactly the legal reference names.         *)
BranchName_from_str(branch) == branch \in ValidBranches

(* ------------------------ registry file -------------------------------- *)
(* Content of sessions.json: missing, a JSON array of sessions, or text    *)
(* that is no JSON document (a truncated or partial write).                *)
Absent == [kind |-> "absent", sessions |-> {}]
Garbage == [kind |-> "garbage", sessions |-> {}]
FileContents == {Absent, Garbage} \cup [kind : {"json"}, sessions : SUBSET Session]

(* serde_json::to_string_pretty(&HashSet<Session>)                         *)
to_string_pretty(S) == [kind |-> "json", sessions |-> S]

(* As list_all_inner, with a document that does not parse taken for the    *)
(* empty set instead of failing.                                           *)
list_all_inner_lenient(f) ==
    IF f.kind = "json" THEN [ok |-> TRUE, sessions |-> f.sessions]
    ELSE [ok |-> TRUE, sessions |-> {}]

(* list_all_inner: read_to_string failing (no file) yields the empty set,  *)
(* serde_json::from_str failing yields the error "parse sessions".         *)
list_all_inner(f) ==
    CASE f.kind = "absent" -> [ok |-> TRUE, sessions |-> {}]
      [] f.kind = "json" -> [ok |-> TRUE, sessions |-> f.sessions]
      [] OTHER -> [ok |-> FALSE, sessions |-> {}]

(* The records `find` may return: HashSet iteration order is arbitrary, so *)
(* any record that matches project and branch can be the first one.        *)
Find(S, project, branch) == {s \in S : s.project = project /\ s.branch = branch}

(* list(project): filter by project equality.                              *)
Filter(S, project) == {s \in S : s.project = project}

(* HashSet::insert: adds the value unless an equal value (all three        *)
(* fields) is already present.                                             *)
HashSet_insert(S, s) == S \cup {s}

(* HashSet::remove                                                         *)
HashSet_remove(S, s) == S \ {s}

(* ----------------------------- state ----------------------------------- *)
VARIABLES
    file,        \* content of sessions.json
    dirs,        \* workspace directories that exist on disk
    nextTemp,    \* index of the next directory TempDir::new creates
    lockHolder,  \* process holding the advisory lock on sessions.lock (0: none)
    proc,        \* per process: position and locals of the running call
    ret,         \* per process: outcome of its last completed call
    calls,       \* number of calls issued so far
    limit,       \* number of calls the behaviour may issue
    cw,          \* the run of copy_workspace that CopySpec follows
    qry          \* the registry query that QuerySpec evaluates

vars == <<file, dirs, nextTemp, lockHolder, proc, ret, calls, limit, cw, qry>>

NoProc == 0

(* No copy_workspace run and no query is followed. *)
CwOff == [pc |-> "off"]
QryOff == [pc |-> "off"]

IdleProc ==
    [pc |-> "idle", op |-> "none", fn |-> "none", project |-> "", branch |-> "",
     workspace |-> NoPath, sessions |-> {}, found |-> {}, repo |-> "none",
     getRes |-> "none", had |-> FALSE]

NoRet ==
    [op |-> "none", project |-> "", branch |-> "", workspace |-> NoPath,
     status |-> "none", ctx |-> "", value |-> {}, agent |-> "none",
     warn |-> FALSE, getRes |-> "none", had |-> FALSE]

Start ==
    /\ file = Absent
    /\ dirs = UserDirs
    /\ nextTemp = 1
    /\ lockHolder = NoProc
    /\ proc = [p \in Procs |-> IdleProc]
    /\ ret = [p \in Procs |-> NoRet]
    /\ calls = 0

Init == Start /\ limit = MaxCalls /\ cw = CwOff /\ qry = QryOff

SeqInit == Start /\ limit = SeqMaxCalls /\ cw = CwOff /\ qry = QryOff

(* ------------------------ call and return ------------------------------ *)
(* A process enters a public function.  Agent::new begins with             *)
(* Sessions::get (line 63).  `had` remembers whether the registry file     *)
(* held a record for (project, branch) when the call was entered; the code *)
(* never reads it.                                                         *)
Enter(p, op, project, branch, workspace) ==
    /\ proc[p].pc = "idle"
    /\ calls < limit
    /\ proc' = [proc EXCEPT ![p] =
                    [IdleProc EXCEPT !.pc = "lockfile", !.op = op,
                                     !.fn = IF op = "agent" THEN "get" ELSE op,
                                     !.project = project, !.branch = branch,
                                     !.workspace = workspace,
                                     !.had = Find(file.sessions, project, branch) # {}]]
    /\ calls' = calls + 1
    /\ UNCHANGED <<file, dirs, nextTemp, lockHolder, ret, limit, cw, qry>>

(* The call of process p completes with the given outcome.                 *)
Finish(p, status, ctx, value, agent, warn) ==
    /\ ret' = [ret EXCEPT ![p] =
                  [op |-> proc[p].op, project |-> proc[p].project,
                   branch |-> proc[p].branch, workspace |-> proc[p].workspace,
                   status |-> status, ctx |-> ctx, value |-> value,
                   agent |-> agent, warn |-> warn, getRes |-> proc[p].getRes,
                   had |-> proc[p].had]]
    /\ proc' = [proc EXCEPT ![p] = IdleProc]

(* As AgentAfterGet, with the found session ignored: every call provisions. *)
AgentAfterGet_never_resume(p, ok, value) ==
    /\ proc' = [proc EXCEPT ![p].pc = "parse_branch", ![p].fn = "none",
                            ![p].sessions = {},
                            ![p].getRes = IF ok THEN "none" ELSE "err"]
    /\ UNCHANGED ret

(* As AgentAfterGet, with the found session resumed only when its          *)
(* workspace directory is on disk, and provisioned anew otherwise.         *)
AgentAfterGet_checks_workspace(p, ok, value) ==
    IF ok /\ value # {} /\ (CHOOSE s \in value : TRUE).workspace \in dirs
    THEN /\ ret' = [ret EXCEPT ![p] =
                      [op |-> "agent", project |-> proc[p].project,
                       branch |-> proc[p].branch,
                       workspace |-> (CHOOSE s \in value : TRUE).workspace,
                       status |-> "Ok", ctx |-> "", value |-> value,
                       agent |-> "Resumed", warn |-> FALSE, getRes |-> "some",
                       had |-> proc[p].had]]
         /\ proc' = [proc EXCEPT ![p] = IdleProc]
    ELSE /\ proc' = [proc EXCEPT ![p].pc = "parse_branch", ![p].fn = "none",
                                 ![p].sessions = {},
                                 ![p].getRes = IF ok THEN "none" ELSE "err"]
         /\ UNCHANGED ret

(* Agent::new, lines 63-70: only Ok(Some(session)) resumes; Ok(None) and   *)
(* Err(_) both fall through to provisioning.                               *)
AgentAfterGet(p, ok, value) ==
    IF ok /\ value # {}
    THEN /\ ret' = [ret EXCEPT ![p] =
                      [op |-> "agent", project |-> proc[p].project,
                       branch |-> proc[p].branch,
                       workspace |-> (CHOOSE s \in value : TRUE).workspace,
                       status |-> "Ok", ctx |-> "", value |-> value,
                       agent |-> "Resumed", warn |-> FALSE, getRes |-> "some",
                       had |-> proc[p].had]]
         /\ proc' = [proc EXCEPT ![p] = IdleProc]
    ELSE /\ proc' = [proc EXCEPT ![p].pc = "parse_branch", ![p].fn = "none",
                                 ![p].sessions = {},
                                 ![p].getRes = IF ok THEN "none" ELSE "err"]
         /\ UNCHANGED ret

(* Agent::new, lines 82-88: the outcome of Sessions::store decides between *)
(* the error "store session" and the Created handle.                       *)
AgentAfterStore(p, ok) ==
    IF ok
    THEN Finish(p, "Ok", "",
                {[project |-> proc[p].project, workspace |-> proc[p].workspace,
                  branch |-> proc[p].branch]}, "Created", FALSE)
    ELSE Finish(p, "Err", "store session", {}, "none", FALSE)

(* A Sessions function returns: to the caller of the library, or into      *)
(* Agent::new when that is what called it.                                 *)
Return(p, ok, ctx, value, warn) ==
    IF proc[p].op = "agent"
    THEN IF proc[p].fn = "get"
         THEN AgentAfterGet(p, ok, value)
         ELSE AgentAfterStore(p, ok)
    ELSE Finish(p, IF ok THEN "Ok" ELSE "Err", ctx, value, "none", warn)

(* As RemoveMissing, with the missing session reported as an error.        *)
RemoveMissing_fails(p) == Return(p, FALSE, "session does not exist", {}, FALSE)

(* remove, lines 230-233: no record matches; warn and return Ok(()).       *)
RemoveMissing(p) == Return(p, TRUE, "", {}, TRUE)

(* --------------------------- entry points ------------------------------ *)
CallListAll(p) == Enter(p, "list_all", "", "", NoPath)

CallList(p) == \E project \in Projects : Enter(p, "list", project, "", NoPath)

CallGet(p) ==
    \E project \in Projects, branch \in ValidBranches :
        Enter(p, "get", project, branch, NoPath)

(* store is given a caller-chosen path or a directory that TempDir::new    *)
(* has created.                                                            *)
CallStore(p) ==
    \E project \in Projects, branch \in ValidBranches,
       workspace \in UserDirs \cup {<<"tmp", i>> : i \in 1..(nextTemp - 1)} :
        Enter(p, "store", project, branch, workspace)

CallRemove(p) ==
    \E project \in Projects, branch \in ValidBranches :
        Enter(p, "remove", project, branch, NoPath)

CallAgentNew(p) ==
    \E project \in Projects, branch \in Branches :
        Enter(p, "agent", project, branch, NoPath)

(* ------------------------- Sessions steps ------------------------------ *)
(* Sessions::lockfile, lines 161-166: LockFile::open opens (creating it if *)
(* needed) sessions.lock and returns the handle.  The handle is bound to   *)
(* `_lock` and LockFile::lock is never called on it, so the advisory lock  *)
(* is not acquired: lockHolder stays as it is.                             *)
Lockfile(p) ==
    /\ proc[p].pc = "lockfile"
    /\ \E opened \in BOOLEAN :
          IF opened
          THEN /\ proc' = [proc EXCEPT ![p].pc = "read"]
               /\ UNCHANGED ret
          ELSE Return(p, FALSE, "lock sessions", {}, FALSE)
    /\ UNCHANGED <<file, dirs, nextTemp, lockHolder, calls, limit, cw, qry>>

(* list_all_inner and what each function does with the loaded set.         *)
ReadRegistry(p) ==
    /\ proc[p].pc = "read"
    /\ LET r == list_all_inner(file)
           me == proc[p]
       IN  IF ~r.ok
           THEN Return(p, FALSE, "parse sessions", {}, FALSE)
           ELSE CASE me.fn = "list_all" -> Return(p, TRUE, "", r.sessions, FALSE)
                  [] me.fn = "list" ->
                        Return(p, TRUE, "", Filter(r.sessions, me.project), FALSE)
                  [] me.fn = "get" ->
                        LET m == Find(r.sessions, me.project, me.branch)
                        IN  IF m = {}
                            THEN Return(p, TRUE, "", {}, FALSE)
                            ELSE \E s \in m : Return(p, TRUE, "", {s}, FALSE)
                  [] me.fn = "store" ->
                        /\ proc' = [proc EXCEPT
                               ![p].pc = "write",
                               ![p].sessions =
                                   HashSet_insert(r.sessions,
                                       [project |-> me.project,
                                        workspace |-> me.workspace,
                                        branch |-> me.branch])]
                        /\ UNCHANGED ret
                  [] me.fn = "remove" ->
                        LET m == Find(r.sessions, me.project, me.branch)
                        IN  IF m = {}
                            THEN RemoveMissing(p)
                            ELSE \E s \in m :
                                    /\ proc' = [proc EXCEPT
                                           ![p].pc = "rmdir",
                                           ![p].sessions = r.sessions,
                                           ![p].found = {s},
                                           ![p].workspace = s.workspace]
                                    /\ UNCHANGED ret
    /\ UNCHANGED <<file, dirs, nextTemp, lockHolder, calls, limit, cw, qry>>

(* As RemoveDirAll, with the result of remove_dir_all dropped: the record  *)
(* leaves the set whether or not the directory could be deleted.           *)
RemoveDirAll_unchecked(p) ==
    /\ proc[p].pc = "rmdir"
    /\ LET s == CHOOSE x \in proc[p].found : TRUE
       IN  \E deleted \in BOOLEAN :
              /\ dirs' = IF deleted THEN dirs \ {s.workspace} ELSE dirs
              /\ proc' = [proc EXCEPT
                     ![p].pc = "write",
                     ![p].sessions = HashSet_remove(proc[p].sessions, s)]
              /\ UNCHANGED ret
    /\ UNCHANGED <<file, nextTemp, lockHolder, calls, limit, cw, qry>>

(* remove, lines 235-236: remove_dir_all of the found workspace, then the  *)
(* record leaves the loaded set.  A missing directory is an error.         *)
RemoveDirAll(p) ==
    /\ proc[p].pc = "rmdir"
    /\ LET s == CHOOSE x \in proc[p].found : TRUE
       IN  \E deleted \in BOOLEAN :
              IF deleted /\ s.workspace \in dirs
              THEN /\ dirs' = dirs \ {s.workspace}
                   /\ proc' = [proc EXCEPT
                          ![p].pc = "write",
                          ![p].sessions = HashSet_remove(proc[p].sessions, s)]
                   /\ UNCHANGED ret
              ELSE /\ Return(p, FALSE, "remove session workspace", {}, FALSE)
                   /\ UNCHANGED dirs
    /\ UNCHANGED <<file, nextTemp, lockHolder, calls, limit, cw, qry>>

(* store_all_inner, lines 215-219: std::fs::write truncates the file and   *)
(* writes the encoded set.  When it fails the file is as before (it could  *)
(* not be opened) or holds a strict prefix of the document.                *)
StoreAllInner(p) ==
    /\ proc[p].pc = "write"
    /\ \E written \in BOOLEAN :
          IF written
          THEN /\ file' = to_string_pretty(proc[p].sessions)
               /\ Return(p, TRUE, "", {}, FALSE)
          ELSE /\ file' \in {file, Garbage}
               /\ Return(p, FALSE, "write sessions file", {}, FALSE)
    /\ UNCHANGED <<dirs, nextTemp, lockHolder, calls, limit, cw, qry>>

(* ------------------------ Agent::new steps ----------------------------- *)
(* As ParseBranch, with the name handed on unvalidated (the validation     *)
(* left to the branch creation that follows the copy).                     *)
ParseBranch_unvalidated(p) ==
    /\ proc[p].pc = "parse_branch"
    /\ proc' = [proc EXCEPT ![p].pc = "tempdir"]
    /\ UNCHANGED <<file, dirs, nextTemp, lockHolder, ret, calls, limit, cw, qry>>

(* line 72 *)
ParseBranch(p) ==
    /\ proc[p].pc = "parse_branch"
    /\ IF BranchName_from_str(proc[p].branch)
       THEN /\ proc' = [proc EXCEPT ![p].pc = "tempdir"]
            /\ UNCHANGED ret
       ELSE Finish(p, "Err", "parse branch name", {}, "none", FALSE)
    /\ UNCHANGED <<file, dirs, nextTemp, lockHolder, calls, limit, cw, qry>>

(* As TempDirNew, with the directory name not fresh: the same name is      *)
(* handed out again until something else advances the counter.             *)
TempDirNew_reused(p) ==
    /\ proc[p].pc = "tempdir"
    /\ \/ /\ nextTemp <= MaxTemp
          /\ dirs' = dirs \cup {<<"tmp", nextTemp>>}
          /\ nextTemp' = nextTemp
          /\ proc' = [proc EXCEPT ![p].pc = "copy",
                                  ![p].workspace = <<"tmp", nextTemp>>]
          /\ UNCHANGED ret
       \/ /\ Finish(p, "Err", "create temp dir", {}, "none", FALSE)
          /\ UNCHANGED <<dirs, nextTemp>>
    /\ UNCHANGED <<file, lockHolder, calls, limit, cw, qry>>

(* line 73: TempDir::new creates a directory that did not exist, and       *)
(* into_path keeps it on disk.                                             *)
TempDirNew(p) ==
    /\ proc[p].pc = "tempdir"
    /\ \/ /\ nextTemp <= MaxTemp
          /\ dirs' = dirs \cup {<<"tmp", nextTemp>>}
          /\ nextTemp' = nextTemp + 1
          /\ proc' = [proc EXCEPT ![p].pc = "copy",
                                  ![p].workspace = <<"tmp", nextTemp>>]
          /\ UNCHANGED ret
       \/ /\ Finish(p, "Err", "create temp dir", {}, "none", FALSE)
          /\ UNCHANGED <<dirs, nextTemp>>
    /\ UNCHANGED <<file, lockHolder, calls, limit, cw, qry>>

(* line 74: copy_workspace returns nothing and cannot fail the call.       *)
CopyWorkspace(p) ==
    /\ proc[p].pc = "copy"
    /\ proc' = [proc EXCEPT ![p].pc = "create_branch"]
    /\ UNCHANGED <<file, dirs, nextTemp, lockHolder, ret, calls, limit, cw, qry>>

(* As CreateLocalBranch, with the temporary directory deleted when the     *)
(* branch cannot be created (the TempDir guard dropped on the error path   *)
(* instead of being released by into_path).                                *)
CreateLocalBranch_cleanup(p) ==
    /\ proc[p].pc = "create_branch"
    /\ \E ok \in BOOLEAN :
          IF ok
          THEN /\ proc' = [proc EXCEPT ![p].pc = "switch_branch",
                                       ![p].repo = "created"]
               /\ UNCHANGED <<ret, dirs>>
          ELSE /\ Finish(p, "Err", "create branch", {}, "none", FALSE)
               /\ dirs' = dirs \ {proc[p].workspace}
    /\ UNCHANGED <<file, nextTemp, lockHolder, calls, limit, cw, qry>>

(* lines 76-78 *)
CreateLocalBranch(p) ==
    /\ proc[p].pc = "create_branch"
    /\ \E ok \in BOOLEAN :
          IF ok
          THEN /\ proc' = [proc EXCEPT ![p].pc = "switch_branch",
                                       ![p].repo = "created"]
               /\ UNCHANGED ret
          ELSE Finish(p, "Err", "create branch", {}, "none", FALSE)
    /\ UNCHANGED <<file, dirs, nextTemp, lockHolder, calls, limit, cw, qry>>

(* As SwitchBranch, with the result of switch_branch dropped: the session  *)
(* is stored whether or not the checkout worked.                           *)
SwitchBranch_unchecked(p) ==
    /\ proc[p].pc = "switch_branch"
    /\ \E ok \in BOOLEAN :
          /\ proc' = [proc EXCEPT ![p].pc = "lockfile", ![p].fn = "store",
                                  ![p].repo = IF ok THEN "switched" ELSE "created"]
          /\ UNCHANGED ret
    /\ UNCHANGED <<file, dirs, nextTemp, lockHolder, calls, limit, cw, qry>>

(* lines 79-82: after the checkout, Sessions::store is called.             *)
SwitchBranch(p) ==
    /\ proc[p].pc = "switch_branch"
    /\ \E ok \in BOOLEAN :
          IF ok
          THEN /\ proc' = [proc EXCEPT ![p].pc = "lockfile", ![p].fn = "store",
                                       ![p].repo = "switched"]
               /\ UNCHANGED ret
          ELSE Finish(p, "Err", "check out new branch", {}, "none", FALSE)
    /\ UNCHANGED <<file, dirs, nextTemp, lockHolder, calls, limit, cw, qry>>

(* -------------------------- specifications ----------------------------- *)
Step(p) ==
    \/ Lockfile(p)
    \/ ReadRegistry(p)
    \/ RemoveDirAll(p)
    \/ StoreAllInner(p)
    \/ ParseBranch(p)
    \/ TempDirNew(p)
    \/ CopyWorkspace(p)
    \/ CreateLocalBranch(p)
    \/ SwitchBranch(p)

Call(p) ==
    \/ CallListAll(p)
    \/ CallList(p)
    \/ CallGet(p)
    \/ CallStore(p)
    \/ CallRemove(p)
    \/ CallAgentNew(p)

(* Concurrent invocations of the tool. *)
Next == \E p \in Procs : Call(p) \/ Step(p)

Spec == Init /\ [][Next]_vars

(* A single process issuing one call after the other. *)
SeqNext == Call(1) \/ Step(1)

SeqSpec == SeqInit /\ [][SeqNext]_vars

TypeOK ==
    /\ file \in FileContents
    /\ dirs \subseteq Workspaces
    /\ nextTemp \in 1..(MaxTemp + 1)
    /\ lockHolder \in Procs \cup {NoProc}
    /\ limit \in {MaxCalls, SeqMaxCalls, CliMaxCalls, QuietMaxCalls}
    /\ calls \in 0..limit
    /\ \A p \in Procs :
          /\ proc[p].pc \in {"idle", "lockfile", "read", "rmdir", "write",
                             "parse_branch", "tempdir", "copy", "create_branch",
                             "switch_branch"}
          /\ proc[p].sessions \subseteq Session
          /\ ret[p].status \in {"none", "Ok", "Err"}

(* ------------------------- copy_workspace ------------------------------ *)
(* The project tree: entries 1..n below the project root (entry 0).  Every *)
(* entry lies in the root or in a directory that can be read.  Kinds:      *)
(*   "dir", "file"   a directory and a regular file that can be copied;    *)
(*   "special"       neither directory nor regular file (symlink, fifo);   *)
(*   "locked_file"   a regular file that async_fs::copy cannot read;       *)
(*   "locked_dir"    a directory the walk can neither classify nor read.   *)
Root == 0
EntryKinds == {"dir", "file", "special", "locked_file", "locked_dir"}
Copyable == {"dir", "file"}

Trees ==
    UNION {[n : {n}, kind : [1..n -> EntryKinds], parent : [1..n -> 0..(n - 1)]]
              : n \in 0..MaxEntries}

WellFormed(tr) ==
    \A e \in 1..tr.n :
        /\ tr.parent[e] < e
        /\ tr.parent[e] # Root => tr.kind[tr.parent[e]] = "dir"

Children(tr, d) == {e \in 1..tr.n : tr.parent[e] = d}

(* The run so far: the stack of directories WalkDir is reading (with the   *)
(* entries each has still to return), the entries present in the target,   *)
(* the entries the stream has produced, and the warnings printed.          *)
CwStart(tr) ==
    [pc |-> "walk", tree |-> tr,
     stack |-> <<[dir |-> Root, rest |-> Children(tr, Root)]>>,
     copied |-> {}, seen |-> {}, warns |-> 0]

(* copy_workspace_entry, lines 262-283: a directory is created and a       *)
(* regular file copied at target.join(entry_rel), which needs the parent   *)
(* directory to be there in the target; anything else is "unknown file     *)
(* kind".  TRUE: Ok(()).                                                   *)
copy_workspace_entry(c, e) ==
    LET k == c.tree.kind[e]
        parentThere == c.tree.parent[e] = Root \/ c.tree.parent[e] \in c.copied
    IN  CASE k = "dir" -> parentThere /\ e \notin c.copied
          [] k = "file" -> parentThere
          [] OTHER -> FALSE

(* As Warn, with the error ending the walk (an error propagated with `?`   *)
(* instead of being printed).                                              *)
Warn_and_abort(c) == [c EXCEPT !.warns = c.warns + 1, !.stack = <<>>]

(* lines 249-256: eprintln!("[warn] ...") and on with the next entry.      *)
Warn(c) == [c EXCEPT !.warns = c.warns + 1]

(* WalkDir: the entry is produced as Ok(entry), a directory being pushed   *)
(* for reading first, or as Err when it cannot be classified or read.      *)
WalkEntry(c, e) ==
    LET top == c.stack[Len(c.stack)]
        popped == [c EXCEPT !.stack[Len(c.stack)].rest = top.rest \ {e},
                            !.seen = c.seen \cup {e}]
    IN  IF c.tree.kind[e] = "dir"
        THEN [popped EXCEPT !.stack = Append(popped.stack,
                                  [dir |-> e, rest |-> Children(c.tree, e)])]
        ELSE popped

(* lines 245-257: one turn of the loop on the next item of the stream.     *)
CopyEntry ==
    /\ cw.pc = "walk"
    /\ cw.stack # <<>>
    /\ \E e \in cw.stack[Len(cw.stack)].rest :
          LET c == WalkEntry(cw, e)
          IN  cw' = IF cw.tree.kind[e] = "locked_dir" THEN Warn(c)
                    ELSE IF copy_workspace_entry(c, e)
                         THEN [c EXCEPT !.copied = c.copied \cup {e}]
                         ELSE Warn(c)
    /\ UNCHANGED <<file, dirs, nextTemp, lockHolder, proc, ret, calls, limit, qry>>

(* WalkDir: the directory on top of the stack has no entry left.           *)
WalkPop ==
    /\ cw.pc = "walk"
    /\ cw.stack # <<>>
    /\ cw.stack[Len(cw.stack)].rest = {}
    /\ cw' = [cw EXCEPT !.stack = SubSeq(cw.stack, 1, Len(cw.stack) - 1)]
    /\ UNCHANGED <<file, dirs, nextTemp, lockHolder, proc, ret, calls, limit, qry>>

(* line 245: entries.next() is None; copy_workspace returns ().            *)
CopyReturn ==
    /\ cw.pc = "walk"
    /\ cw.stack = <<>>
    /\ cw' = [cw EXCEPT !.pc = "done"]
    /\ UNCHANGED <<file, dirs, nextTemp, lockHolder, proc, ret, calls, limit, qry>>

CopyInit ==
    /\ Start /\ limit = MaxCalls /\ qry = QryOff
    /\ \E tr \in Trees : WellFormed(tr) /\ cw = CwStart(tr)

CopyNext == CopyEntry \/ WalkPop \/ CopyReturn

(* block_on drives the walk until it returns.                              *)
CopySpec == CopyInit /\ [][CopyNext]_vars /\ WF_vars(CopyNext)

(* ------------------------ Sessions::list / get ------------------------- *)
(* list and get evaluated as the code evaluates them: list_all, then the   *)
(* loaded HashSet is consumed by into_iter() in some order, each record    *)
(* passing through the closure of filter (collected into a new HashSet) or *)
(* of find (which stops at the first match).  The registry holds records   *)
(* of two projects.                                                        *)
QueryProjects == Projects \cup {"/work/lib"}

QuerySession == [project : QueryProjects, workspace : UserDirs, branch : ValidBranches]

QueryFiles ==
    {Absent, Garbage} \cup
    {to_string_pretty(S) : S \in {T \in SUBSET QuerySession : Cardinality(T) <= MaxRecords}}

(* into_iter(): the records of the set, each once, in an arbitrary order.  *)
into_iter(S) ==
    {q \in [1..Cardinality(S) -> S] : \A i, j \in 1..Cardinality(S) : i # j => q[i] # q[j]}

(* line 188: |s| s.project == project                                      *)
list_filter(s, project) == s.project = project

(* As get_find, comparing the branch only.                                 *)
get_find_branch_only(s, project, branch) == s.branch = branch

(* line 195: |s| s.project == project && s.branch == branch                *)
get_find(s, project, branch) == s.project = project /\ s.branch = branch

QueryStart(fn, f, project, branch) ==
    [pc |-> "load", fn |-> fn, file |-> f, project |-> project, branch |-> branch,
     order |-> <<>>, i |-> 1, out |-> {}, status |-> "none"]

(* list_all (lines 169-172) inside list and get: an error is the result of *)
(* the call (`map` on Err, `?`).                                           *)
QueryLoad ==
    /\ qry.pc = "load"
    /\ LET r == list_all_inner(qry.file)
       IN  IF r.ok
           THEN \E q \in into_iter(r.sessions) :
                    qry' = [qry EXCEPT !.pc = "iter", !.order = q]
           ELSE qry' = [qry EXCEPT !.pc = "done", !.status = "Err"]
    /\ UNCHANGED <<file, dirs, nextTemp, lockHolder, proc, ret, calls, limit, cw>>

(* The iterator hands the next record to the closure.                      *)
QueryIter ==
    /\ qry.pc = "iter"
    /\ qry.i <= Len(qry.order)
    /\ LET s == qry.order[qry.i]
       IN  IF qry.fn = "list"
           THEN qry' = [qry EXCEPT !.i = qry.i + 1,
                            !.out = IF list_filter(s, qry.project)
                                    THEN HashSet_insert(qry.out, s) ELSE qry.out]
           ELSE IF get_find(s, qry.project, qry.branch)
                THEN qry' = [qry EXCEPT !.pc = "done", !.status = "Ok", !.out = {s}]
                ELSE qry' = [qry EXCEPT !.i = qry.i + 1]
    /\ UNCHANGED <<file, dirs, nextTemp, lockHolder, proc, ret, calls, limit, cw>>

(* The iterator is exhausted: collect() yields the set, find yields None.  *)
QueryReturn ==
    /\ qry.pc = "iter"
    /\ qry.i > Len(qry.order)
    /\ qry' = [qry EXCEPT !.pc = "done", !.status = "Ok"]
    /\ UNCHANGED <<file, dirs, nextTemp, lockHolder, proc, ret, calls, limit, cw>>

QueryInit ==
    /\ Start /\ limit = MaxCalls /\ cw = CwOff
    /\ \E fn \in {"list", "get"}, f \in QueryFiles,
          project \in QueryProjects, branch \in ValidBranches :
            qry = QueryStart(fn, f, project, branch)

QueryNext == QueryLoad \/ QueryIter \/ QueryReturn

QuerySpec == QueryInit /\ [][QueryNext]_vars

(* --------------------- the agent and remove commands ------------------- *)
(* Concurrent invocations of `anna agent BRANCH` (Agent::new) and of       *)
(* `anna session remove BRANCH` (Sessions::remove), the only commands that *)
(* change the registry or the workspaces.                                  *)
CliInit == Start /\ limit = CliMaxCalls /\ cw = CwOff /\ qry = QryOff

CliCall(p) == CallAgentNew(p) \/ CallRemove(p)

CliNext == \E p \in Procs : CliCall(p) \/ Step(p)

CliSpec == CliInit /\ [][CliNext]_vars

(* Process p takes a step in which an operation on the file system or the  *)
(* repository fails: the lock file cannot be opened, the registry cannot   *)
(* be written, no temporary directory can be created, the branch cannot be *)
(* created or checked out, or a directory that is on disk cannot be        *)
(* deleted.                                                                *)
Fault(p) ==
    \/ proc[p].pc = "lockfile" /\ proc'[p].pc # "read"
    \/ proc[p].pc = "write" /\ ~(/\ file' = to_string_pretty(proc[p].sessions)
                                 /\ ret'[p].status = "Ok")
    \/ proc[p].pc = "tempdir" /\ proc'[p].pc # "copy"
    \/ proc[p].pc = "create_branch" /\ proc'[p].pc # "switch_branch"
    \/ proc[p].pc = "switch_branch" /\ proc'[p].pc # "lockfile"
    \/ proc[p].pc = "rmdir" /\ proc'[p].pc # "write" /\ proc[p].workspace \in dirs

(* The steps in which every such operation succeeds.                       *)
QuietStep(p) == Step(p) /\ ~Fault(p)

QuietNext == \E p \in Procs : CliCall(p) \/ QuietStep(p)

QuietInit == Start /\ limit = QuietMaxCalls /\ cw = CwOff /\ qry = QryOff

(* The same commands on a machine where no such operation ever fails.      *)
QuietSpec == QuietInit /\ [][QuietNext]_vars

(* ============================ properties =============================== *)
Key(s) == <<s.project, s.branch>>

Record(project, workspace, branch) ==
    [project |-> project, workspace |-> workspace, branch |-> branch]

(* Process p takes the step. *)
StepOf(p) == proc'[p] # proc[p]

(* Process p completes its call in the step. *)
Completes(p) == StepOf(p) /\ proc'[p].pc = "idle"

(* Process p is between Sessions::lockfile returning the `_lock` handle    *)
(* and the end of the function that owns it.                               *)
Holding(p) == proc[p].pc \in {"read", "rmdir", "write"}

(* The results get(project, branch) can return on the registry file f: an *)
(* error, Ok(None) (value {}), or Ok(Some(s)) for a matching record s.     *)
GetNone == [ok |-> TRUE, value |-> {}]

GetResults(f, project, branch) ==
    IF ~list_all_inner(f).ok THEN {[ok |-> FALSE, value |-> {}]}
    ELSE IF Find(list_all_inner(f).sessions, project, branch) = {} THEN {GetNone}
    ELSE {[ok |-> TRUE, value |-> {s}] :
             s \in Find(list_all_inner(f).sessions, project, branch)}

(* ------------------------------- C1 ------------------------------------ *)
(* C1: when the only two calls of a behaviour are stores by two processes  *)
(* for different (project, branch) keys and both returned Ok, the registry *)
(* file holds both records, whatever the interleaving of their steps.      *)
C1_NoLostUpdate ==
    \A p, q \in Procs :
        ( /\ p # q
          /\ calls = 2
          /\ proc[p].pc = "idle" /\ proc[q].pc = "idle"
          /\ ret[p].op = "store" /\ ret[p].status = "Ok"
          /\ ret[q].op = "store" /\ ret[q].status = "Ok"
          /\ <<ret[p].project, ret[p].branch>> # <<ret[q].project, ret[q].branch>> )
        => /\ file.kind = "json"
           /\ Record(ret[p].project, ret[p].workspace, ret[p].branch) \in file.sessions
           /\ Record(ret[q].project, ret[q].workspace, ret[q].branch) \in file.sessions

(* ------------------------------- C2 ------------------------------------ *)
(* C2: at most one process at a time is inside a registry function, i.e.   *)
(* past Sessions::lockfile and not yet returned (between the start of its  *)
(* registry read and the end of its registry write).                       *)
C2_MutualExclusion ==
    \A p, q \in Procs : (Holding(p) /\ Holding(q)) => p = q

(* ------------------------------- C3 ------------------------------------ *)
(* C3: when a process completes store(project, w2, branch) right after its *)
(* store(project, w1, branch) with w1 # w2, the registry holds exactly one *)
(* record with that key and its workspace is w2.                           *)
C3_StoreReplacesOnKey ==
    [][ \A p \in Procs :
          ( /\ proc[p].op = "store" /\ Completes(p) /\ ret'[p].status = "Ok"
            /\ ret[p].op = "store" /\ ret[p].status = "Ok"
            /\ ret[p].project = proc[p].project /\ ret[p].branch = proc[p].branch
            /\ ret[p].workspace # proc[p].workspace )
          => Find(file'.sessions, proc[p].project, proc[p].branch)
                = {Record(proc[p].project, proc[p].workspace, proc[p].branch)}
      ]_vars

(* ------------------------------- C4 ------------------------------------ *)
(* C4: in every reachable state the registry file holds at most one record *)
(* for each (project, branch).                                             *)
C4_AtMostOnePerKey ==
    \A s, t \in file.sessions : Key(s) = Key(t) => s = t

(* ------------------------------- C5 ------------------------------------ *)
(* C5: when a process completes get(project, branch) with Ok right after   *)
(* its successful store(project, workspace, branch), the value returned is *)
(* the stored session, equal in all three fields.                          *)
C5_GetAfterStore ==
    [][ \A p \in Procs :
          ( /\ proc[p].op = "get" /\ Completes(p) /\ ret'[p].status = "Ok"
            /\ ret[p].op = "store" /\ ret[p].status = "Ok"
            /\ ret[p].project = proc[p].project /\ ret[p].branch = proc[p].branch )
          => ret'[p].value
                = {Record(ret[p].project, ret[p].workspace, ret[p].branch)}
      ]_vars

(* ------------------------------- C6 ------------------------------------ *)
(* C6: the previous call of the process was Agent::new(project, branch)    *)
(* that found no record for the key in the registry and returned Created;  *)
(* the process now runs Agent::new(project, branch) again and its          *)
(* Sessions::get does not fail.  Then no step of the second call changes   *)
(* the registry file or creates a directory, the call never reaches        *)
(* provisioning, and it returns Resumed with the workspace of the first.   *)
SecondAgentCall(p) ==
    /\ ret[p].op = "agent" /\ ret[p].agent = "Created" /\ ~ret[p].had
    /\ proc[p].op = "agent"
    /\ proc[p].project = ret[p].project /\ proc[p].branch = ret[p].branch
    /\ proc[p].getRes # "err"

C7_RemoveDeletesSession ==
    \A p \in Procs :
        ( /\ \A q \in Procs : proc[q].pc = "idle"
          /\ ret[p].op = "remove" /\ ret[p].status = "Ok" /\ ~ret[p].warn )
        => /\ ret[p].workspace \notin dirs
           /\ GetResults(file, ret[p].project, ret[p].branch) = {GetNone}

(* ------------------------------- C8 ------------------------------------ *)
(* C8: a remove(p, b) that has opened the lock file and loads a registry   *)
(* (absent file included) with no record matching (p, b) returns Ok with   *)
(* the warning in that step, and no step of the call up to there changes   *)
(* the registry file or the directories on disk.                           *)
C8_RemoveMissingIsNoOp ==
    [][ \A p \in Procs :
          (proc[p].op = "remove" /\ StepOf(p)) =>
             /\ proc[p].pc = "lockfile" => (file' = file /\ dirs' = dirs)
             /\ ( /\ proc[p].pc = "read"
                  /\ GetResults(file, proc[p].project, proc[p].branch) = {GetNone} )
                => /\ proc'[p].pc = "idle"
                   /\ ret'[p].op = "remove"
                   /\ ret'[p].status = "Ok"
                   /\ ret'[p].warn
                   /\ file' = file
                   /\ dirs' = dirs
                   /\ nextTemp' = nextTemp
      ]_vars

(* A remove on an absent registry file returned Ok with the warning and    *)
(* the file is still absent.                                               *)
C8_Witness ==
    \E p \in Procs :
        /\ ret[p].op = "remove" /\ ret[p].status = "Ok" /\ ret[p].warn
        /\ proc[p].pc = "idle"
        /\ file = Absent

(* ------------------------------- C9 ------------------------------------ *)
(* C9: in an Agent::new call only the final step writes the registry file; *)
(* a call that returns Created has created and checked out the branch and  *)
(* leaves its record (project, workspace, branch) in the file; a call that *)
(* returns an error leaves the file as it was or unparsable, so without a  *)
(* record added by the call; the registry write is reached only after      *)
(* create_local_branch and switch_branch succeeded.                        *)
C9_AllOrNothing ==
    [][ \A p \in Procs :
          (proc[p].op = "agent" /\ StepOf(p)) =>
             /\ file' # file => proc'[p].pc = "idle"
             /\ proc'[p].pc = "write" => proc'[p].repo = "switched"
             /\ (proc'[p].pc = "idle" /\ ret'[p].agent = "Created") =>
                   /\ proc[p].repo = "switched"
                   /\ ret'[p].status = "Ok"
                   /\ file'.kind = "json"
                   /\ Record(proc[p].project, ret'[p].workspace, proc[p].branch)
                         \in file'.sessions
             /\ (proc'[p].pc = "idle" /\ ret'[p].agent # "Created") =>
                   /\ file' \in {file, Garbage}
                   /\ ret'[p].agent = "Resumed" \/ ret'[p].status = "Err"
      ]_vars

(* An Agent::new call failed at branch creation or checkout: its temporary *)
(* directory exists and no record refers to it.                            *)
C9_Witness ==
    \E p \in Procs :
        /\ proc[p].pc = "idle"
        /\ ret[p].op = "agent" /\ ret[p].status = "Err"
        /\ ret[p].ctx \in {"create branch", "check out new branch"}
        /\ ret[p].workspace \in dirs
        /\ \A s \in file.sessions : s.workspace # ret[p].workspace

BadEntries(tr) == {e \in 1..tr.n : tr.kind[e] \notin Copyable}

C11_CopyDone ==
    cw.pc = "done" =>
        /\ cw.seen = 1..cw.tree.n
        /\ cw.copied = (1..cw.tree.n) \ BadEntries(cw.tree)
        /\ cw.warns = Cardinality(BadEntries(cw.tree))
        /\ Cardinality(BadEntries(cw.tree)) = 1 => cw.warns = 1

C11_CopyResilience == [](cw.warns <= Cardinality(cw.seen)) /\ []C11_CopyDone /\ <>(cw.pc = "done")

(* The walk ended on a tree with a copyable file inside a copyable         *)
(* directory and exactly one bad entry, visited before the last copy.      *)
C11_Witness ==
    /\ cw.pc = "done"
    /\ Cardinality(BadEntries(cw.tree)) = 1
    /\ cw.warns = 1
    /\ \E d, f \in cw.copied :
          /\ cw.tree.kind[d] = "dir" /\ cw.tree.kind[f] = "file"
          /\ cw.tree.parent[f] = d

(* ------------------------------ C12 ------------------------------------ *)
(* C12: when list_all succeeds on the registry file, list(project) returns *)
(* exactly the records of list_all whose project equals the argument, and  *)
(* get(project, branch) returns a record exactly when list(project) holds  *)
(* a record with that branch, the record returned being one of those; the  *)
(* results are those of Filter and Find.  When list_all fails both fail.   *)
ListOf(S, project) == {s \in S : s.project = project}

C12_ListAndGet ==
    qry.pc = "done" =>
        LET all == list_all_inner(qry.file)
            l == ListOf(all.sessions, qry.project)
        IN  IF ~all.ok THEN qry.status = "Err" /\ qry.out = {}
            ELSE /\ qry.status = "Ok"
                 /\ qry.fn = "list" =>
                       /\ qry.out = l
                       /\ qry.out = Filter(all.sessions, qry.project)
                 /\ qry.fn = "get" =>
                       /\ qry.out # {} <=> \E s \in l : s.branch = qry.branch
                       /\ qry.out \subseteq {s \in l : s.branch = qry.branch}
                       /\ Cardinality(qry.out) <= 1
                       /\ qry.out \subseteq Find(all.sessions, qry.project, qry.branch)

(* get returned a record while the registry also holds a record of the     *)
(* other project with the same branch, visited before the one returned.    *)
C12_Witness ==
    /\ qry.pc = "done" /\ qry.fn = "get" /\ qry.status = "Ok"
    /\ qry.out # {}
    /\ qry.i > 1
    /\ qry.order[1].project # qry.project
    /\ qry.order[1].branch = qry.branch

(* ------------------------------ C13 ------------------------------------ *)
(* C13: when the Sessions::get of an Agent::new call fails (the lock file  *)
(* cannot be opened, or the registry file does not parse), the call        *)
(* returns that error in the same step; and no step of a call whose get    *)
(* failed allocates a temporary directory, copies or creates a branch.     *)
GetFails(p) ==
    /\ proc[p].op = "agent" /\ proc[p].fn = "get" /\ StepOf(p)
    /\ \/ proc[p].pc = "lockfile" /\ proc'[p].pc # "read"
       \/ proc[p].pc = "read" /\ ~list_all_inner(file).ok

C13_RegistryErrorAborts ==
    [][ \A p \in Procs :
          /\ GetFails(p) =>
                /\ proc'[p].pc = "idle"
                /\ ret'[p].op = "agent" /\ ret'[p].status = "Err"
                /\ ret'[p].ctx \in {"lock sessions", "parse sessions"}
          /\ (proc[p].op = "agent" /\ proc[p].getRes = "err" /\ StepOf(p)) =>
                /\ dirs' = dirs
                /\ nextTemp' = nextTemp
                /\ proc'[p].pc \notin {"copy", "create_branch", "switch_branch"}
      ]_vars

(* ------------------------------ C14 ------------------------------------ *)
(* C14: when the Sessions::get of an Agent::new call loads a registry that *)
(* holds a record for (project, branch), the call returns in that step     *)
(* with Ok and status Resumed, its project, workspace and branch being     *)
(* those of a stored record for the key, and the step changes neither the  *)
(* registry file nor the directories on disk and allocates no temporary    *)
(* directory (the call never gets to copying or to a branch operation),    *)
(* whether or not the stored workspace exists on disk.                     *)
C14_ResumeTrustsRegistry ==
    [][ \A p \in Procs :
          ( /\ proc[p].op = "agent" /\ proc[p].fn = "get" /\ proc[p].pc = "read"
            /\ StepOf(p)
            /\ list_all_inner(file).ok
            /\ Find(list_all_inner(file).sessions, proc[p].project, proc[p].branch) # {} )
          => /\ proc'[p].pc = "idle"
             /\ ret'[p].op = "agent" /\ ret'[p].status = "Ok"
             /\ ret'[p].agent = "Resumed"
             /\ ret'[p].project = proc[p].project
             /\ ret'[p].branch = proc[p].branch
             /\ Record(ret'[p].project, ret'[p].workspace, ret'[p].branch) \in file.sessions
             /\ file' = file
             /\ dirs' = dirs
             /\ nextTemp' = nextTemp
      ]_vars

(* An Agent::new call returned Resumed into a stored workspace that is not *)
(* on disk.                                                                *)
C14_Witness ==
    \E p \in Procs :
        /\ proc[p].pc = "idle"
        /\ ret[p].op = "agent" /\ ret[p].agent = "Resumed"
        /\ ret[p].workspace \notin dirs
        /\ file.kind = "json"
        /\ Record(ret[p].project, ret[p].workspace, ret[p].branch) \in file.sessions

(* ------------------------------ C15 ------------------------------------ *)
(* C15: in a remove(p, b) that found the record, the deletion of the       *)
(* workspace fails whenever the directory is not on disk; when it fails,   *)
(* remove returns the error "remove session workspace" in that step, the   *)
(* registry file and the directories are as before and the record found is *)
(* still in the file; the file is never written in the deletion step.      *)
C15_RemoveKeepsStateOnDeleteFailure ==
    [][ \A p \in Procs :
          (proc[p].op = "remove" /\ proc[p].pc = "rmdir" /\ StepOf(p)) =>
             /\ file' = file
             /\ proc[p].workspace \notin dirs => proc'[p].pc = "idle"
             /\ proc'[p].pc # "idle" =>
                   /\ proc'[p].pc = "write"
                   /\ proc[p].workspace \notin dirs'
             /\ proc'[p].pc = "idle" =>
                   /\ ret'[p].op = "remove" /\ ret'[p].status = "Err"
                   /\ ret'[p].ctx = "remove session workspace"
                   /\ dirs' = dirs
                   /\ file'.kind = "json"
                   /\ proc[p].found \subseteq file'.sessions
                   /\ Find(file'.sessions, proc[p].project, proc[p].branch) # {}
      ]_vars

(* A remove failed on a workspace that was no longer on disk, and the      *)
(* record is still in the registry.                                        *)
C15_Witness ==
    \E p \in Procs :
        /\ proc[p].pc = "idle"
        /\ ret[p].op = "remove" /\ ret[p].status = "Err"
        /\ ret[p].ctx = "remove session workspace"
        /\ ret[p].workspace \notin dirs
        /\ file.kind = "json"
        /\ Record(ret[p].project, ret[p].workspace, ret[p].branch) \in file.sessions

(* ------------------------------ C16 ------------------------------------ *)
(* C16, as stated: an Agent::new call that failed with the invalid branch  *)
(* name error had allocated its temporary workspace directory (and copied  *)
(* into it) before, and leaves that directory on disk.                     *)
C16_ValidationAfterCopy ==
    \A p \in Procs :
        ( /\ proc[p].pc = "idle"
          /\ ret[p].op = "agent" /\ ret[p].status = "Err"
          /\ ret[p].ctx = "parse branch name" )
        => /\ ret[p].workspace \in TempDirs
           /\ ret[p].workspace \in dirs

(* C16, amended: in an Agent::new call that does not resume, the branch    *)
(* name is validated before the temporary directory is allocated: the call *)
(* gets to TempDir::new only with a legal name, and with an illegal name   *)
(* it fails in the validation step with "parse branch name", having        *)
(* allocated no directory, copied nothing, created no branch and written   *)
(* no registry record at any of its steps.                                 *)
C16_ValidationBeforeAllocation ==
    [][ \A p \in Procs :
          (proc[p].op = "agent" /\ StepOf(p)) =>
             /\ proc'[p].pc = "tempdir" => proc[p].branch \in ValidBranches
             /\ proc[p].branch \in InvalidBranches =>
                   /\ file' = file
                   /\ dirs' = dirs
                   /\ nextTemp' = nextTemp
                   /\ proc'[p].pc \in {"read", "parse_branch", "idle"}
                   /\ proc'[p].workspace = NoPath
             /\ (proc[p].pc = "parse_branch" /\ proc[p].branch \in InvalidBranches) =>
                   /\ proc'[p].pc = "idle"
                   /\ ret'[p].op = "agent" /\ ret'[p].status = "Err"
                   /\ ret'[p].ctx = "parse branch name"
                   /\ ret'[p].workspace = NoPath
      ]_vars

(* The first call, Agent::new with an illegal name on an empty registry,   *)
(* failed in the validation: no temporary directory was ever created.      *)
C16_Witness ==
    \E p \in Procs :
        /\ proc[p].pc = "idle"
        /\ ret[p].op = "agent" /\ ret[p].status = "Err"
        /\ ret[p].ctx = "parse branch name"
        /\ ret[p].branch \in InvalidBranches
        /\ ret[p].getRes = "none"
        /\ nextTemp = 1
        /\ dirs = UserDirs
        /\ file = Absent

(* ------------------------------ C17 ------------------------------------ *)
(* C17: no step of an Agent::new call deletes a directory; when a call     *)
(* that has allocated its temporary directory returns an error, the error  *)
(* is that of the branch creation, the checkout or the store, the          *)
(* directory is on disk after the return and no record of the registry     *)
(* file refers to it.                                                      *)
C17_WorkspaceLeak ==
    [][ \A p \in Procs :
          (proc[p].op = "agent" /\ StepOf(p)) =>
             /\ dirs \subseteq dirs'
             /\ ( /\ proc'[p].pc = "idle" /\ ret'[p].status = "Err"
                  /\ proc[p].workspace \in TempDirs )
                => /\ ret'[p].ctx \in {"create branch", "check out new branch",
                                       "store session"}
                   /\ ret'[p].workspace = proc[p].workspace
                   /\ proc[p].workspace \in dirs'
                   /\ \A s \in file'.sessions : s.workspace # proc[p].workspace
      ]_vars

(* An Agent::new call failed in Sessions::store: its temporary directory   *)
(* is on disk and the registry has no record of it.                        *)
C17_Witness ==
    \E p \in Procs :
        /\ proc[p].pc = "idle"
        /\ ret[p].op = "agent" /\ ret[p].status = "Err"
        /\ ret[p].ctx = "store session"
        /\ ret[p].workspace \in TempDirs
        /\ ret[p].workspace \in dirs
        /\ \A s \in file.sessions : s.workspace # ret[p].workspace

(* ------------------------------ C18 ------------------------------------ *)
(* C18: with agent and remove commands running concurrently and nothing    *)
(* else deleting directories, in every state in which no remove is in      *)
(* progress every record of the registry file refers to a workspace        *)
(* directory that is on disk.                                              *)
NoRemoveInProgress == \A p \in Procs : proc[p].op # "remove"

C18_NoDanglingRecords ==
    NoRemoveInProgress => \A s \in file.sessions : s.workspace \in dirs

(* ------------------------------ C19 ------------------------------------ *)
(* C19: with agent and remove commands running concurrently, operations    *)
(* failing or not, no two distinct records of the registry file, and no    *)
(* two distinct records of a set a process is about to write, have the     *)
(* same workspace path.                                                    *)
Exclusive(S) == \A s, t \in S : s.workspace = t.workspace => s = t

C19_WorkspaceExclusivity ==
    /\ Exclusive(file.sessions)
    /\ \A p \in Procs : Exclusive(proc[p].sessions)

(* Two agent commands returned Created, one into each of two temporary     *)
(* directories, and the registry holds both records.                       *)
C19_Witness ==
    /\ \A p \in Procs : proc[p].pc = "idle" /\ ret[p].agent = "Created"
    /\ ret[1].workspace # ret[2].workspace
    /\ \A p \in Procs :
          Record(ret[p].project, ret[p].workspace, ret[p].branch) \in file.sessions
====
